---- MODULE Spec2Model ----
(***************************************************************************)
(* Renewable Energy Credit Management System (src/src/index.ts).           *)
(*                                                                         *)
(* The canister keeps four ordered key-value stores (producers, clients,   *)
(* contracts, credit orders) and exposes update calls that run to          *)
(* completion one at a time.  Every update call is one action here.        *)
(* Quantities, prices and supplies are stored as text and parsed with      *)
(* parseFloat each time they are read; text is modelled as a sequence of   *)
(* one-character strings and parseFloat / Number.toString are computed on  *)
(* those sequences.  Records leave out `id` (it is the key under which the *)
(* record is stored) and `created_date` (written once at creation, never   *)
(* read or rewritten by any operation).                                    *)
(***************************************************************************)
EXTENDS Integers, Sequences, FiniteSets, TLC

\* ------------------------------------------------------------------ bounds
MaxProducers == 2
MaxClients == 2
MaxContracts == 1
MaxPlaced == 3        \* credit orders placed by placeCreditOrder
MaxTransfers == 1     \* transferCredits calls
MaxTime == 1

ProducerIds == 1..MaxProducers
ClientIds == 1..MaxClients
ContractIds == 1..MaxContracts
\* every placed order and every transfer takes one fresh identifier
OrderIds == 1..(MaxPlaced + MaxTransfers)

VARIABLES
    producerStorage,     \* StableBTreeMap<string, Producer>
    clientStorage,       \* StableBTreeMap<string, Client>
    contractStorage,     \* StableBTreeMap<string, Contract>
    creditOrderStorage,  \* StableBTreeMap<string, CreditOrder>
    issued,              \* the identifiers uuidv4 has handed out, per store
    now,                 \* ic.time()
    transfers,           \* how many transferCredits calls have been made
    last                 \* the last call, see Call and Other

stores == <<producerStorage, clientStorage, contractStorage, creditOrderStorage>>
vars == <<producerStorage, clientStorage, contractStorage, creditOrderStorage,
          issued, now, transfers, last>>

\* ------------------------------------------------------------ Opt<nat64>
None == <<>>
Some(t) == <<t>>

\* ------------------------------------------------- JavaScript numbers
\* A number is NaN or an integer (the texts of this model hold no fraction,
\* exponent or "Infinity").
NaN == [nan |-> TRUE, v |-> 0]
Num(n) == [nan |-> FALSE, v |-> n]
isNaN(a) == a.nan
Plus(a, b) == IF a.nan \/ b.nan THEN NaN ELSE Num(a.v + b.v)
Minus(a, b) == IF a.nan \/ b.nan THEN NaN ELSE Num(a.v - b.v)
Times(a, b) == IF a.nan \/ b.nan THEN NaN ELSE Num(a.v * b.v)
\* every comparison with NaN is false
Geq(a, b) == ~a.nan /\ ~b.nan /\ a.v >= b.v
Leq(a, b) == ~a.nan /\ ~b.nan /\ a.v <= b.v
Less(a, b) == ~a.nan /\ ~b.nan /\ a.v < b.v

\* ------------------------------------------------------------- text
Digits == <<"0", "1", "2", "3", "4", "5", "6", "7", "8", "9">>
IsDigit(c) == \E i \in 1..10 : Digits[i] = c
DigitVal(c) == (CHOOSE i \in 1..10 : Digits[i] = c) - 1

RECURSIVE LeadingSpaces(_)
LeadingSpaces(t) ==
    IF t = <<>> \/ Head(t) # " " THEN 0 ELSE 1 + LeadingSpaces(Tail(t))

RECURSIVE LeadingDigits(_)
LeadingDigits(t) ==
    IF t = <<>> \/ ~IsDigit(Head(t)) THEN 0 ELSE 1 + LeadingDigits(Tail(t))

RECURSIVE DecimalValue(_)
DecimalValue(ds) ==
    IF ds = <<>> THEN 0
    ELSE 10 * DecimalValue(SubSeq(ds, 1, Len(ds) - 1)) + DigitVal(ds[Len(ds)])

\* parseFloat: skip leading white space, read an optional sign and the longest
\* run of digits, ignore whatever follows; NaN when there is no digit.
parseFloat(t) ==
    LET s == SubSeq(t, LeadingSpaces(t) + 1, Len(t))
        signed == s # <<>> /\ Head(s) \in {"-", "+"}
        body == IF signed THEN Tail(s) ELSE s
        n == LeadingDigits(body)
        magnitude == DecimalValue(SubSeq(body, 1, n))
    IN  IF n = 0 THEN NaN
        ELSE IF signed /\ Head(s) = "-" THEN Num(0 - magnitude)
        ELSE Num(magnitude)

RECURSIVE DecimalDigits(_)
DecimalDigits(n) ==
    IF n < 10 THEN <<Digits[n + 1]>>
    ELSE DecimalDigits(n \div 10) \o <<Digits[(n % 10) + 1]>>

\* Number.prototype.toString
toString(a) ==
    IF a.nan THEN <<"N", "a", "N">>
    ELSE IF a.v < 0 THEN <<"-">> \o DecimalDigits(0 - a.v)
    ELSE DecimalDigits(a.v)

\* ------------------------------------------------------ StableBTreeMap
\* values() lists the records in ascending key order
RECURSIVE keys(_)
keys(S) ==
    IF S = {} THEN <<>>
    ELSE LET k == CHOOSE x \in S : \A y \in S : x <= y
         IN  <<k>> \o keys(S \ {k})

insert(storage, id, record) ==
    [k \in DOMAIN storage \cup {id} |-> IF k = id THEN record ELSE storage[k]]

remove(storage, id) ==
    [k \in DOMAIN storage \ {id} |-> storage[k]]

isEmpty(storage) == DOMAIN storage = {}

\* ------------------------------------------------------------- messages
AlreadyInitialized == "Renewable Energy Credit Management System has already been initialized"
Initialized == "Renewable Energy Credit Management System initialized with default producer and client"
NoProducersAvailable == "No producers available"
OrderPlaced == "Credit order placed successfully"
NoWork == "No producers or unfulfilled credit orders found"
FulfillmentUpdated == "Credit order fulfillment updated based on renewable energy supply"
InvalidClientIDs == "Invalid client IDs"
InvalidQuantity == "Invalid quantity for credit transfer"
InsufficientCredits == "Insufficient fulfilled credits for transfer"
Transferred == "Successfully transferred"
ProducerRemoved == "Producer removed successfully"
ProducerNotFound == "Producer not found"
AlreadyFulfilled == "Credit order is already fulfilled"
FulfilledSuccessfully == "Credit order fulfilled successfully"
Rejected == "the call trapped"
ClientRemoved == "Client removed successfully"
ClientNotFound == "Client not found"

\* What `last` records of an allocation pass or a transfer: the call's name,
\* its arguments, the message it returned, the storage writes of its loops
\* in the order they were made, and the four stores as the call found them.
Call(op, args, msg, log) ==
    [op |-> op, args |-> args, msg |-> msg, log |-> log, before |-> stores]

\* of any other call `last` records the name and the returned message
Other(op, msg) == [op |-> op, msg |-> msg]

\* ------------------------------------------------------------- Init
Init ==
    /\ producerStorage = <<>>
    /\ clientStorage = <<>>
    /\ contractStorage = <<>>
    /\ creditOrderStorage = <<>>
    /\ issued = [producers |-> {}, clients |-> {}, contracts |-> {}, orders |-> {}]
    /\ now = 0
    /\ transfers = 0
    /\ last = Other("deploy", "")

\* the block time moves on between calls
Tick ==
    /\ now < MaxTime
    /\ now' = now + 1
    /\ UNCHANGED <<stores, issued, transfers, last>>

\* ------------------------------------------------------------- operations
initRenewableEnergyCreditSystem ==
    IF ~isEmpty(producerStorage) \/ ~isEmpty(clientStorage)
         \/ ~isEmpty(contractStorage) \/ ~isEmpty(creditOrderStorage)
    THEN /\ last' = Other("initRenewableEnergyCreditSystem", AlreadyInitialized)
         /\ UNCHANGED <<stores, issued, now, transfers>>
    ELSE \E pid \in ProducerIds \ issued.producers, cid \in ClientIds \ issued.clients :
         /\ producerStorage' = insert(producerStorage, pid,
                [name |-> "Default Producer",
                 renewable_energy_supply |-> <<"1", "0", "0", "0">>,
                 updated_at |-> None])
         /\ clientStorage' = insert(clientStorage, cid,
                [name |-> "Default Client", updated_at |-> None])
         /\ issued' = [issued EXCEPT !.producers = @ \cup {pid}, !.clients = @ \cup {cid}]
         /\ last' = Other("initRenewableEnergyCreditSystem", Initialized)
         /\ UNCHANGED <<contractStorage, creditOrderStorage, now, transfers>>

addProducer(name, renewable_energy_supply) ==
    \E id \in ProducerIds \ issued.producers :
        /\ producerStorage' = insert(producerStorage, id,
               [name |-> name,
                renewable_energy_supply |-> renewable_energy_supply,
                updated_at |-> None])
        /\ issued' = [issued EXCEPT !.producers = @ \cup {id}]
        /\ last' = Other("addProducer", id)
        /\ UNCHANGED <<clientStorage, contractStorage, creditOrderStorage, now, transfers>>

addClient(name) ==
    \E id \in ClientIds \ issued.clients :
        /\ clientStorage' = insert(clientStorage, id, [name |-> name, updated_at |-> None])
        /\ issued' = [issued EXCEPT !.clients = @ \cup {id}]
        /\ last' = Other("addClient", id)
        /\ UNCHANGED <<producerStorage, contractStorage, creditOrderStorage, now, transfers>>

initiateContract(producer_id, client_id, quantity, price) ==
    \E id \in ContractIds \ issued.contracts :
        /\ contractStorage' = insert(contractStorage, id,
               [producer_id |-> producer_id, client_id |-> client_id,
                quantity |-> quantity, price |-> price, updated_at |-> None])
        /\ issued' = [issued EXCEPT !.contracts = @ \cup {id}]
        /\ last' = Other("initiateContract", id)
        /\ UNCHANGED <<producerStorage, clientStorage, creditOrderStorage, now, transfers>>

placeCreditOrder(client_id, quantity, bid_price) ==
    IF isEmpty(producerStorage)
    THEN /\ last' = Other("placeCreditOrder", NoProducersAvailable)
         /\ UNCHANGED <<stores, issued, now, transfers>>
    ELSE \E id \in OrderIds \ issued.orders :
         /\ Cardinality(DOMAIN creditOrderStorage) < MaxPlaced
         /\ creditOrderStorage' = insert(creditOrderStorage, id,
                [client_id |-> client_id, quantity |-> quantity,
                 bid_price |-> bid_price, is_fulfilled |-> FALSE,
                 updated_at |-> None])
         /\ issued' = [issued EXCEPT !.orders = @ \cup {id}]
         /\ last' = Other("placeCreditOrder", OrderPlaced)
         /\ UNCHANGED <<producerStorage, clientStorage, contractStorage, now, transfers>>

\* fulfillCreditOrder.  For an id that is not stored the code goes on with an
\* empty object, sets the two fields and hands it to insert: the store then
\* holds a record of just these two fields under that id, or, where the
\* store refuses a value that lacks fields of CreditOrder, the call traps and
\* leaves the state as it was.  An id stored this way is a key of the store
\* and is never handed out by uuidv4 afterwards.
fulfillCreditOrder(credit_order_id) ==
    IF credit_order_id \in DOMAIN creditOrderStorage
    THEN LET creditOrder == creditOrderStorage[credit_order_id]
         IN  IF creditOrder.is_fulfilled
             THEN /\ last' = Call("fulfillCreditOrder", <<credit_order_id>>,
                                  AlreadyFulfilled, <<>>)
                  /\ UNCHANGED <<stores, issued, now, transfers>>
             ELSE /\ creditOrderStorage' = insert(creditOrderStorage, credit_order_id,
                         [creditOrder EXCEPT !.is_fulfilled = TRUE,
                                             !.updated_at = Some(now)])
                  /\ last' = Call("fulfillCreditOrder", <<credit_order_id>>,
                                  FulfilledSuccessfully, <<credit_order_id>>)
                  /\ UNCHANGED <<producerStorage, clientStorage, contractStorage,
                                 issued, now, transfers>>
    ELSE \/ /\ creditOrderStorage' = insert(creditOrderStorage, credit_order_id,
                    [is_fulfilled |-> TRUE, updated_at |-> Some(now)])
            /\ issued' = [issued EXCEPT !.orders = @ \cup {credit_order_id}]
            /\ last' = Call("fulfillCreditOrder", <<credit_order_id>>,
                            FulfilledSuccessfully, <<credit_order_id>>)
            /\ UNCHANGED <<producerStorage, clientStorage, contractStorage,
                           now, transfers>>
         \/ /\ last' = Call("fulfillCreditOrder", <<credit_order_id>>,
                            Rejected, <<>>)
            /\ UNCHANGED <<stores, issued, now, transfers>>

deleteProducer(id) ==
    IF id \in DOMAIN producerStorage
    THEN /\ producerStorage' = remove(producerStorage, id)
         /\ last' = Other("deleteProducer", ProducerRemoved)
         /\ UNCHANGED <<clientStorage, contractStorage, creditOrderStorage,
                        issued, now, transfers>>
    ELSE /\ last' = Other("deleteProducer", ProducerNotFound)
         /\ UNCHANGED <<stores, issued, now, transfers>>

\* deleteClient with the bug of deleting the client's credit orders as well
deleteClientCascades(id) ==
    IF id \in DOMAIN clientStorage
    THEN /\ clientStorage' = remove(clientStorage, id)
         /\ creditOrderStorage' =
                [k \in {o \in DOMAIN creditOrderStorage :
                            creditOrderStorage[o].client_id # id}
                    |-> creditOrderStorage[k]]
         /\ last' = Call("deleteClient", <<id>>, ClientRemoved, <<>>)
         /\ UNCHANGED <<producerStorage, contractStorage, issued, now, transfers>>
    ELSE /\ last' = Call("deleteClient", <<id>>, ClientNotFound, <<>>)
         /\ UNCHANGED <<stores, issued, now, transfers>>

deleteClient(id) ==
    IF id \in DOMAIN clientStorage
    THEN /\ clientStorage' = remove(clientStorage, id)
         /\ last' = Call("deleteClient", <<id>>, ClientRemoved, <<>>)
         /\ UNCHANGED <<producerStorage, contractStorage, creditOrderStorage,
                        issued, now, transfers>>
    ELSE /\ last' = Call("deleteClient", <<id>>, ClientNotFound, <<>>)
         /\ UNCHANGED <<stores, issued, now, transfers>>

\* ---- updateCreditOrderFulfillment
\* unfulfilledOrders with the bug of a missing filter: every order is listed
unfulfilledOrdersUnfiltered(storage) == keys(DOMAIN storage)

\* creditOrderStorage.values().filter(order => !order.is_fulfilled): the keys of
\* the listed records, in storage order
unfulfilledOrders(storage) ==
    SelectSeq(keys(DOMAIN storage), LAMBDA id : ~storage[id].is_fulfilled)

\* orderLoop with the bug of a fulfilled order not lowering remainingEnergy
RECURSIVE orderLoopKeepsRemaining(_, _, _, _, _, _, _)
orderLoopKeepsRemaining(producer, remainingEnergy, orders, listed, storage, log, time) ==
    IF orders = <<>> THEN [listed |-> listed, storage |-> storage, log |-> log]
    ELSE LET id == Head(orders)
             requiredEnergy == parseFloat(listed[id].quantity)
         IN  IF Geq(remainingEnergy, requiredEnergy)
             THEN LET order == [listed[id] EXCEPT !.is_fulfilled = TRUE,
                                                  !.updated_at = Some(time)]
                  IN  orderLoopKeepsRemaining(producer, remainingEnergy,
                                Tail(orders), [listed EXCEPT ![id] = order],
                                insert(storage, id, order),
                                Append(log, <<producer, id>>), time)
             ELSE orderLoopKeepsRemaining(producer, remainingEnergy, Tail(orders),
                                          listed, storage, log, time)

\* orderLoop with the bug of stopping at the first order that does not fit
RECURSIVE orderLoopStopsAtMisfit(_, _, _, _, _, _, _)
orderLoopStopsAtMisfit(producer, remainingEnergy, orders, listed, storage, log, time) ==
    IF orders = <<>> THEN [listed |-> listed, storage |-> storage, log |-> log]
    ELSE LET id == Head(orders)
             requiredEnergy == parseFloat(listed[id].quantity)
         IN  IF Geq(remainingEnergy, requiredEnergy)
             THEN LET order == [listed[id] EXCEPT !.is_fulfilled = TRUE,
                                                  !.updated_at = Some(time)]
                  IN  orderLoopStopsAtMisfit(producer,
                                Minus(remainingEnergy, requiredEnergy),
                                Tail(orders), [listed EXCEPT ![id] = order],
                                insert(storage, id, order),
                                Append(log, <<producer, id>>), time)
             ELSE [listed |-> listed, storage |-> storage, log |-> log]

\* for (const order of unfulfilledOrders): `orders` are the keys still to visit,
\* `listed` the record objects of the list (a fulfilled one stays in the list,
\* changed in place), `log` the storage writes so far as <<producer, order>>.
RECURSIVE orderLoop(_, _, _, _, _, _, _)
orderLoop(producer, remainingEnergy, orders, listed, storage, log, time) ==
    IF orders = <<>> THEN [listed |-> listed, storage |-> storage, log |-> log]
    ELSE LET id == Head(orders)
             requiredEnergy == parseFloat(listed[id].quantity)
         IN  IF Geq(remainingEnergy, requiredEnergy)
             THEN LET order == [listed[id] EXCEPT !.is_fulfilled = TRUE,
                                                  !.updated_at = Some(time)]
                  IN  orderLoop(producer, Minus(remainingEnergy, requiredEnergy),
                                Tail(orders), [listed EXCEPT ![id] = order],
                                insert(storage, id, order),
                                Append(log, <<producer, id>>), time)
             ELSE orderLoop(producer, remainingEnergy, Tail(orders), listed,
                            storage, log, time)

\* producerLoop with the bug of starting each producer's counter at its
\* supply less the quantities already fulfilled in storage
RECURSIVE producerLoopRemembers(_, _, _, _, _, _, _)
producerLoopRemembers(producers, supplies, orders, listed, storage, log, time) ==
    IF producers = <<>> THEN [storage |-> storage, log |-> log]
    ELSE LET producer == Head(producers)
             fulfilled == SelectSeq(keys(DOMAIN storage),
                                    LAMBDA id : storage[id].is_fulfilled)
             used == [i \in 1..Len(fulfilled) |-> parseFloat(storage[fulfilled[i]].quantity)]
             usedSum[i \in 0..Len(used)] ==
                 IF i = 0 THEN Num(0) ELSE Plus(usedSum[i - 1], used[i])
             r == orderLoop(producer,
                            Minus(parseFloat(supplies[producer].renewable_energy_supply),
                                  usedSum[Len(used)]),
                            orders, listed, storage, log, time)
         IN  producerLoopRemembers(Tail(producers), supplies, orders, r.listed,
                                   r.storage, r.log, time)

\* for (const producer of producers)
RECURSIVE producerLoop(_, _, _, _, _, _, _)
producerLoop(producers, supplies, orders, listed, storage, log, time) ==
    IF producers = <<>> THEN [storage |-> storage, log |-> log]
    ELSE LET producer == Head(producers)
             r == orderLoop(producer,
                            parseFloat(supplies[producer].renewable_energy_supply),
                            orders, listed, storage, log, time)
         IN  producerLoop(Tail(producers), supplies, orders, r.listed,
                          r.storage, r.log, time)

\* updateCreditOrderFulfillment with the bug of writing each producer's
\* depleted supply back to producerStorage
updateCreditOrderFulfillmentPersistsDepletion ==
    LET producers == keys(DOMAIN producerStorage)
        orders == unfulfilledOrders(creditOrderStorage)
    IN  IF Len(producers) = 0 \/ Len(orders) = 0
        THEN /\ last' = Call("updateCreditOrderFulfillment", <<>>, NoWork, <<>>)
             /\ UNCHANGED <<stores, issued, now, transfers>>
        ELSE LET r == producerLoop(producers, producerStorage, orders,
                                   creditOrderStorage, creditOrderStorage, <<>>, now)
                 used(p) == {i \in 1..Len(r.log) : r.log[i][1] = p}
             IN  /\ creditOrderStorage' = r.storage
                 /\ producerStorage' =
                        [p \in DOMAIN producerStorage |->
                            IF used(p) = {} THEN producerStorage[p]
                            ELSE [producerStorage[p] EXCEPT
                                     !.renewable_energy_supply = <<"0">>,
                                     !.updated_at = Some(now)]]
                 /\ last' = Call("updateCreditOrderFulfillment", <<>>,
                                 FulfillmentUpdated, r.log)
                 /\ UNCHANGED <<clientStorage, contractStorage,
                                issued, now, transfers>>

\* updateCreditOrderFulfillment with the bug of returning early only when
\* both lists are empty
updateCreditOrderFulfillmentRunsOnEmpty ==
    LET producers == keys(DOMAIN producerStorage)
        orders == unfulfilledOrders(creditOrderStorage)
    IN  IF Len(producers) = 0 /\ Len(orders) = 0
        THEN /\ last' = Call("updateCreditOrderFulfillment", <<>>, NoWork, <<>>)
             /\ UNCHANGED <<stores, issued, now, transfers>>
        ELSE LET r == producerLoop(producers, producerStorage, orders,
                                   creditOrderStorage, creditOrderStorage, <<>>, now)
             IN  /\ creditOrderStorage' = r.storage
                 /\ last' = Call("updateCreditOrderFulfillment", <<>>,
                                 FulfillmentUpdated, r.log)
                 /\ UNCHANGED <<producerStorage, clientStorage, contractStorage,
                                issued, now, transfers>>

updateCreditOrderFulfillment ==
    LET producers == keys(DOMAIN producerStorage)
        orders == unfulfilledOrders(creditOrderStorage)
    IN  IF Len(producers) = 0 \/ Len(orders) = 0
        THEN /\ last' = Call("updateCreditOrderFulfillment", <<>>, NoWork, <<>>)
             /\ UNCHANGED <<stores, issued, now, transfers>>
        ELSE LET r == producerLoop(producers, producerStorage, orders,
                                   creditOrderStorage, creditOrderStorage, <<>>, now)
             IN  /\ creditOrderStorage' = r.storage
                 /\ last' = Call("updateCreditOrderFulfillment", <<>>,
                                 FulfillmentUpdated, r.log)
                 /\ UNCHANGED <<producerStorage, clientStorage, contractStorage,
                                issued, now, transfers>>

\* ---- transferCredits
\* fromClientOrders with the bug of not comparing client_id
fromClientOrdersOfAnyClient(storage, fromClientID) ==
    SelectSeq(keys(DOMAIN storage), LAMBDA id : storage[id].is_fulfilled)

\* fromClientOrders with the bug of not testing is_fulfilled
fromClientOrdersUnfulfilledToo(storage, fromClientID) ==
    SelectSeq(keys(DOMAIN storage), LAMBDA id : storage[id].client_id = fromClientID)

\* creditOrderStorage.values().filter(order => order.client_id === fromClientID
\*                                             && order.is_fulfilled)
fromClientOrders(storage, fromClientID) ==
    SelectSeq(keys(DOMAIN storage),
              LAMBDA id : storage[id].client_id = fromClientID /\ storage[id].is_fulfilled)

\* fromClientOrders.reduce((total, order) => total + parseFloat(order.quantity), 0)
RECURSIVE totalFulfilledQuantity(_, _)
totalFulfilledQuantity(orders, storage) ==
    IF orders = <<>> THEN Num(0)
    ELSE Plus(totalFulfilledQuantity(SubSeq(orders, 1, Len(orders) - 1), storage),
              parseFloat(storage[orders[Len(orders)]].quantity))

\* deductLoop with the bug of a fully consumed order not lowering the
\* remaining quantity
RECURSIVE deductLoopKeepsRemaining(_, _, _, _, _)
deductLoopKeepsRemaining(orders, remainingTransferQuantity, storage, log, time) ==
    IF orders = <<>> THEN [storage |-> storage, log |-> log]
    ELSE LET id == Head(orders)
             orderQuantity == parseFloat(storage[id].quantity)
         IN  IF Leq(orderQuantity, remainingTransferQuantity)
             THEN deductLoopKeepsRemaining(Tail(orders), remainingTransferQuantity,
                             insert(storage, id,
                                    [storage[id] EXCEPT !.is_fulfilled = FALSE,
                                                        !.updated_at = Some(time)]),
                             Append(log, <<id, "unfulfilled">>), time)
             ELSE [storage |-> insert(storage, id,
                        [storage[id] EXCEPT
                            !.quantity = toString(Minus(orderQuantity,
                                                        remainingTransferQuantity)),
                            !.updated_at = Some(time)]),
                   log |-> Append(log, <<id, "reduced">>)]

\* deductLoop with the bug of `<` for `<=`: an order equal to what remains is
\* reduced to zero instead of being consumed
RECURSIVE deductLoopStrict(_, _, _, _, _)
deductLoopStrict(orders, remainingTransferQuantity, storage, log, time) ==
    IF orders = <<>> THEN [storage |-> storage, log |-> log]
    ELSE LET id == Head(orders)
             orderQuantity == parseFloat(storage[id].quantity)
         IN  IF Less(orderQuantity, remainingTransferQuantity)
             THEN deductLoopStrict(Tail(orders),
                             Minus(remainingTransferQuantity, orderQuantity),
                             insert(storage, id,
                                    [storage[id] EXCEPT !.is_fulfilled = FALSE,
                                                        !.updated_at = Some(time)]),
                             Append(log, <<id, "unfulfilled">>), time)
             ELSE [storage |-> insert(storage, id,
                        [storage[id] EXCEPT
                            !.quantity = toString(Minus(orderQuantity,
                                                        remainingTransferQuantity)),
                            !.updated_at = Some(time)]),
                   log |-> Append(log, <<id, "reduced">>)]

\* the deduction loop; `log` lists its storage writes as <<order, how>>
RECURSIVE deductLoop(_, _, _, _, _)
deductLoop(orders, remainingTransferQuantity, storage, log, time) ==
    IF orders = <<>> THEN [storage |-> storage, log |-> log]
    ELSE LET id == Head(orders)
             orderQuantity == parseFloat(storage[id].quantity)
         IN  IF Leq(orderQuantity, remainingTransferQuantity)
             THEN deductLoop(Tail(orders),
                             Minus(remainingTransferQuantity, orderQuantity),
                             insert(storage, id,
                                    [storage[id] EXCEPT !.is_fulfilled = FALSE,
                                                        !.updated_at = Some(time)]),
                             Append(log, <<id, "unfulfilled">>), time)
             ELSE [storage |-> insert(storage, id,
                        [storage[id] EXCEPT
                            !.quantity = toString(Minus(orderQuantity,
                                                        remainingTransferQuantity)),
                            !.updated_at = Some(time)]),
                   log |-> Append(log, <<id, "reduced">>)]

\* transferOutcome with the bug of deducting before the source's total is
\* checked
transferOutcomeDeductsFirst(fromClientID, toClientID, quantity, clients, storage, time) ==
    LET transferQuantity == parseFloat(quantity)
        orders == fromClientOrders(storage, fromClientID)
    IN  IF fromClientID \notin DOMAIN clients \/ toClientID \notin DOMAIN clients
        THEN [msg |-> InvalidClientIDs, storage |-> storage, log |-> <<>>]
        ELSE IF isNaN(transferQuantity) \/ Leq(transferQuantity, Num(0))
        THEN [msg |-> InvalidQuantity, storage |-> storage, log |-> <<>>]
        ELSE LET r == deductLoop(orders, transferQuantity, storage, <<>>, time)
             IN  IF Less(totalFulfilledQuantity(orders, storage), transferQuantity)
                 THEN [msg |-> InsufficientCredits, storage |-> r.storage,
                       log |-> r.log]
                 ELSE [msg |-> Transferred, storage |-> r.storage, log |-> r.log]

\* transferOutcome with the bug of checking the quantity before the client ids
transferOutcomeQuantityFirst(fromClientID, toClientID, quantity, clients, storage, time) ==
    LET transferQuantity == parseFloat(quantity)
        orders == fromClientOrders(storage, fromClientID)
    IN  IF isNaN(transferQuantity) \/ Leq(transferQuantity, Num(0))
        THEN [msg |-> InvalidQuantity, storage |-> storage, log |-> <<>>]
        ELSE IF fromClientID \notin DOMAIN clients \/ toClientID \notin DOMAIN clients
        THEN [msg |-> InvalidClientIDs, storage |-> storage, log |-> <<>>]
        ELSE IF Less(totalFulfilledQuantity(orders, storage), transferQuantity)
        THEN [msg |-> InsufficientCredits, storage |-> storage, log |-> <<>>]
        ELSE LET r == deductLoop(orders, transferQuantity, storage, <<>>, time)
             IN  [msg |-> Transferred, storage |-> r.storage, log |-> r.log]

\* lines 522-564: the three checks, then the deduction; what the call
\* returns, the credit orders as the deduction leaves them, and its writes
transferOutcome(fromClientID, toClientID, quantity, clients, storage, time) ==
    LET transferQuantity == parseFloat(quantity)
        orders == fromClientOrders(storage, fromClientID)
    IN  IF fromClientID \notin DOMAIN clients \/ toClientID \notin DOMAIN clients
        THEN [msg |-> InvalidClientIDs, storage |-> storage, log |-> <<>>]
        ELSE IF isNaN(transferQuantity) \/ Leq(transferQuantity, Num(0))
        THEN [msg |-> InvalidQuantity, storage |-> storage, log |-> <<>>]
        ELSE IF Less(totalFulfilledQuantity(orders, storage), transferQuantity)
        THEN [msg |-> InsufficientCredits, storage |-> storage, log |-> <<>>]
        ELSE LET r == deductLoop(orders, transferQuantity, storage, <<>>, time)
             IN  [msg |-> Transferred, storage |-> r.storage, log |-> r.log]

\* transferCredits with the bug of a new order that is born unfulfilled and
\* carries the requested quantity as its bid price
transferCreditsNewOrderUnfulfilled(fromClientID, toClientID, quantity) ==
    LET args == <<fromClientID, toClientID, quantity>>
        out == transferOutcome(fromClientID, toClientID, quantity,
                               clientStorage, creditOrderStorage, now)
    IN  /\ transfers < MaxTransfers
        /\ transfers' = transfers + 1
        /\ IF out.msg = Transferred
           THEN \E id \in OrderIds \ issued.orders :
                /\ creditOrderStorage' = insert(out.storage, id,
                       [client_id |-> toClientID, quantity |-> quantity,
                        bid_price |-> quantity, is_fulfilled |-> FALSE,
                        updated_at |-> Some(now)])
                /\ issued' = [issued EXCEPT !.orders = @ \cup {id}]
                /\ last' = Call("transferCredits", args, Transferred,
                                Append(out.log, <<id, "created">>))
           ELSE /\ creditOrderStorage' = out.storage
                /\ last' = Call("transferCredits", args, out.msg, out.log)
                /\ UNCHANGED issued
        /\ UNCHANGED <<producerStorage, clientStorage, contractStorage, now>>

transferCredits(fromClientID, toClientID, quantity) ==
    LET args == <<fromClientID, toClientID, quantity>>
        out == transferOutcome(fromClientID, toClientID, quantity,
                               clientStorage, creditOrderStorage, now)
    IN  /\ transfers < MaxTransfers
        /\ transfers' = transfers + 1
        /\ IF out.msg = Transferred
           THEN \E id \in OrderIds \ issued.orders :
                /\ creditOrderStorage' = insert(out.storage, id,
                       [client_id |-> toClientID, quantity |-> quantity,
                        bid_price |-> <<"0">>, is_fulfilled |-> TRUE,
                        updated_at |-> Some(now)])
                /\ issued' = [issued EXCEPT !.orders = @ \cup {id}]
                /\ last' = Call("transferCredits", args, Transferred,
                                Append(out.log, <<id, "created">>))
           ELSE /\ creditOrderStorage' = out.storage
                /\ last' = Call("transferCredits", args, out.msg, out.log)
                /\ UNCHANGED issued
        /\ UNCHANGED <<producerStorage, clientStorage, contractStorage, now>>

\* ---- queries
Ok(value) == <<"Ok", value>>
Err(message) == <<"Err", message>>

NoFulfilledOrders == "No fulfilled credit orders found"
NoProducersFound == "No producers found"
NoClientContracts == "No contracts found for the specified client"
NoUnfulfilledOrders == "No unfulfilled credit orders found"
TotalSupplyIs == "Total Renewable Energy Supply: "

Queries == {"getTotalRevenue", "calculateTotalRenewableEnergy",
            "getClientContracts", "getUnfulfilledCreditOrders"}

\* What `last` records of a query: its name, arguments and result, the four
\* stores as it found them, and the queries answered since the last update
\* call as <<name, arguments, result>>.
Query(op, args, result) ==
    [op |-> op, args |-> args, msg |-> result, before |-> stores,
     seen |-> IF last.op \in Queries
              THEN last.seen \cup {<<last.op, last.args, last.msg>>}
              ELSE {}]

\* the records of `ids` as values() returns them, each with its key
values(storage, ids) == [i \in 1..Len(ids) |-> <<ids[i], storage[ids[i]]>>]

\* fulfilledOrders.reduce((total, order) =>
\*     total + parseFloat(order.bid_price) * parseFloat(order.quantity), 0)
RECURSIVE totalRevenue(_, _)
totalRevenue(orders, storage) ==
    IF orders = <<>> THEN Num(0)
    ELSE LET order == storage[orders[Len(orders)]]
         IN  Plus(totalRevenue(SubSeq(orders, 1, Len(orders) - 1), storage),
                  Times(parseFloat(order.bid_price), parseFloat(order.quantity)))

\* producers.reduce((total, producer) =>
\*     total + parseFloat(producer.renewable_energy_supply), 0)
RECURSIVE totalRenewableEnergy(_, _)
totalRenewableEnergy(producers, storage) ==
    IF producers = <<>> THEN Num(0)
    ELSE Plus(totalRenewableEnergy(SubSeq(producers, 1, Len(producers) - 1), storage),
              parseFloat(storage[producers[Len(producers)]].renewable_energy_supply))

getTotalRevenue ==
    LET fulfilledOrders ==
            SelectSeq(keys(DOMAIN creditOrderStorage),
                      LAMBDA id : creditOrderStorage[id].is_fulfilled)
    IN  /\ last' = Query("getTotalRevenue", <<>>,
                IF Len(fulfilledOrders) = 0 THEN Err(NoFulfilledOrders)
                ELSE Ok(totalRevenue(fulfilledOrders, creditOrderStorage)))
        /\ UNCHANGED <<stores, issued, now, transfers>>

calculateTotalRenewableEnergy ==
    LET producers == keys(DOMAIN producerStorage)
    IN  /\ last' = Query("calculateTotalRenewableEnergy", <<>>,
                IF Len(producers) = 0 THEN <<NoProducersFound>>
                ELSE <<TotalSupplyIs>>
                         \o toString(totalRenewableEnergy(producers, producerStorage)))
        /\ UNCHANGED <<stores, issued, now, transfers>>

getClientContracts(client_id) ==
    LET clientContracts ==
            SelectSeq(keys(DOMAIN contractStorage),
                      LAMBDA id : contractStorage[id].client_id = client_id)
    IN  /\ last' = Query("getClientContracts", <<client_id>>,
                IF Len(clientContracts) = 0 THEN Err(NoClientContracts)
                ELSE Ok(values(contractStorage, clientContracts)))
        /\ UNCHANGED <<stores, issued, now, transfers>>

\* getUnfulfilledCreditOrders with the bug of marking the orders it returns
\* as fulfilled
getUnfulfilledCreditOrdersMarks ==
    LET orders == unfulfilledOrders(creditOrderStorage)
    IN  /\ last' = Query("getUnfulfilledCreditOrders", <<>>,
                IF Len(orders) = 0 THEN Err(NoUnfulfilledOrders)
                ELSE Ok(values(creditOrderStorage, orders)))
        /\ creditOrderStorage' =
               [id \in DOMAIN creditOrderStorage |->
                   [creditOrderStorage[id] EXCEPT !.is_fulfilled = TRUE]]
        /\ UNCHANGED <<producerStorage, clientStorage, contractStorage,
                       issued, now, transfers>>

getUnfulfilledCreditOrders ==
    LET orders == unfulfilledOrders(creditOrderStorage)
    IN  /\ last' = Query("getUnfulfilledCreditOrders", <<>>,
                IF Len(orders) = 0 THEN Err(NoUnfulfilledOrders)
                ELSE Ok(values(creditOrderStorage, orders)))
        /\ UNCHANGED <<stores, issued, now, transfers>>

\* ------------------------------------------------------- specifications
\* Transfers.  The default producer and client, a second client, orders of
\* both clients fulfilled against the default producer's supply of 1000, and
\* transfers between any two client ids, stored or not.
TransferOrderQuantities == {<<"1">>, <<"2">>}
TransferQuantities == {<<"3">>, <<"0">>, <<"x">>}

TransferNext ==
    \/ initRenewableEnergyCreditSystem
    \/ addClient("Default Client")
    \/ \E c \in ClientIds, q \in TransferOrderQuantities :
           placeCreditOrder(c, q, <<"1">>)
    \/ updateCreditOrderFulfillment
    \/ \E a \in ClientIds, b \in ClientIds, q \in TransferQuantities :
           transferCredits(a, b, q)

TransferSpec == Init /\ [][TransferNext]_vars

\* Transfers over orders of positive and negative quantity, all placed for
\* client 1.
SignedOrderQuantities == {<<"1">>, <<"2">>, <<"-", "1">>}
SignedTransferQuantities == {<<"2">>, <<"3">>}

SignedTransferNext ==
    \/ initRenewableEnergyCreditSystem
    \/ addClient("Default Client")
    \/ \E q \in SignedOrderQuantities : placeCreditOrder(1, q, <<"1">>)
    \/ updateCreditOrderFulfillment
    \/ \E a \in ClientIds, b \in ClientIds, q \in SignedTransferQuantities :
           transferCredits(a, b, q)

SignedTransferSpec == Init /\ [][SignedTransferNext]_vars

\* Allocation.  Producers with enough, too little and negative supply,
\* orders of positive and negative quantity placed before and after earlier
\* passes, and the block time moving on between calls.
Supplies == {<<"3">>, <<"-", "1">>}
AllocationOrderQuantities == {<<"1">>, <<"2">>, <<"-", "1">>}

AllocationNext ==
    \/ \E s \in Supplies : addProducer("Producer", s)
    \/ \E q \in AllocationOrderQuantities : placeCreditOrder(1, q, <<"1">>)
    \/ updateCreditOrderFulfillment
    \/ Tick

AllocationSpec == Init /\ [][AllocationNext]_vars

\* Passes with nothing to do.  Producers are added and deleted, so that
\* orders can be stored while no producer is.
NoWorkNext ==
    \/ \E s \in Supplies : addProducer("Producer", s)
    \/ \E id \in ProducerIds : deleteProducer(id)
    \/ \E q \in AllocationOrderQuantities : placeCreditOrder(1, q, <<"1">>)
    \/ updateCreditOrderFulfillment

NoWorkSpec == Init /\ [][NoWorkNext]_vars

\* Allocation with a producer whose supply text is not a number.
MalformedSupplies == {<<"3">>, <<"x">>}
MalformedOrderQuantities == {<<"1">>, <<"2">>}

MalformedSupplyNext ==
    \/ \E s \in MalformedSupplies : addProducer("Producer", s)
    \/ \E q \in MalformedOrderQuantities : placeCreditOrder(1, q, <<"1">>)
    \/ updateCreditOrderFulfillment
    \/ Tick

MalformedSupplySpec == Init /\ [][MalformedSupplyNext]_vars

\* Queries between update calls: one producer supply, a contract of client
\* 1, orders with a numeric and a non-numeric bid price.
QuerySupplies == {<<"3">>}
QueryBidPrices == {<<"2">>, <<"x">>}

QueryNext ==
    \/ \E s \in QuerySupplies : addProducer("Producer", s)
    \/ initiateContract(1, 1, <<"1">>, <<"1">>)
    \/ \E b \in QueryBidPrices : placeCreditOrder(1, <<"1">>, b)
    \/ updateCreditOrderFulfillment
    \/ getTotalRevenue
    \/ calculateTotalRenewableEnergy
    \/ \E c \in ClientIds : getClientContracts(c)
    \/ getUnfulfilledCreditOrders

QuerySpec == Init /\ [][QueryNext]_vars

\* Transfers over orders of quantity zero.
ZeroOrderQuantities == {<<"2">>, <<"0">>}
ZeroTransferQuantities == {<<"2">>}

ZeroTransferNext ==
    \/ initRenewableEnergyCreditSystem
    \/ addClient("Default Client")
    \/ \E q \in ZeroOrderQuantities : placeCreditOrder(1, q, <<"1">>)
    \/ updateCreditOrderFulfillment
    \/ \E a \in ClientIds, b \in ClientIds, q \in ZeroTransferQuantities :
           transferCredits(a, b, q)

ZeroTransferSpec == Init /\ [][ZeroTransferNext]_vars

\* Orders fulfilled one at a time, by ids that are stored and ids that are
\* not.
FulfillSupplies == {<<"3">>}
FulfillOrderQuantities == {<<"1">>, <<"4">>}

FulfillNext ==
    \/ \E s \in FulfillSupplies : addProducer("Producer", s)
    \/ \E q \in FulfillOrderQuantities : placeCreditOrder(1, q, <<"1">>)
    \/ updateCreditOrderFulfillment
    \/ \E id \in OrderIds : fulfillCreditOrder(id)
    \/ Tick

FulfillSpec == Init /\ [][FulfillNext]_vars

\* Clients deleted while their orders are stored, and transfers that name
\* them.
DeleteClientOrderQuantities == {<<"2">>}
DeleteClientTransferQuantities == {<<"2">>}

DeleteClientNext ==
    \/ initRenewableEnergyCreditSystem
    \/ addClient("Default Client")
    \/ \E c \in ClientIds, q \in DeleteClientOrderQuantities :
           placeCreditOrder(c, q, <<"1">>)
    \/ updateCreditOrderFulfillment
    \/ \E id \in ClientIds : deleteClient(id)
    \/ \E a \in ClientIds, b \in ClientIds, q \in DeleteClientTransferQuantities :
           transferCredits(a, b, q)

DeleteClientSpec == Init /\ [][DeleteClientNext]_vars

\* ------------------------------------------------------------- claims
\* Each claim about a call is stated of the state the call leaves: `last`
\* names the call and holds the stores as the call found them.

ordersBefore == last.before[4]

\* the sum of the quantities of the orders `ids` of `storage`
RECURSIVE quantitySum(_, _)
quantitySum(ids, storage) ==
    IF ids = {} THEN 0
    ELSE LET id == CHOOSE x \in ids : TRUE
         IN  parseFloat(storage[id].quantity).v + quantitySum(ids \ {id}, storage)

fulfilledOf(storage, client) ==
    {id \in DOMAIN storage :
        storage[id].is_fulfilled /\ storage[id].client_id = client}

fulfilledIn(storage) == {id \in DOMAIN storage : storage[id].is_fulfilled}

\* what a client holds, and what all clients hold
held(storage, client) == quantitySum(fulfilledOf(storage, client), storage)
heldByAll(storage) == quantitySum(fulfilledIn(storage), storage)

integerQuantities(storage) ==
    \A id \in fulfilledIn(storage) : ~isNaN(parseFloat(storage[id].quantity))

transferReturned(msg) == last.op = "transferCredits" /\ last.msg = msg
fromClient == last.args[1]
toClient == last.args[2]
requested == parseFloat(last.args[3])

logged(how) == {i \in 1..Len(last.log) : last.log[i][2] = how}

\* C1: a successful transfer over integer quantities leaves the sum of the
\* fulfilled quantities of all clients as it was, however many source orders
\* it consumes.
C1_Conservation ==
    (transferReturned(Transferred) /\ integerQuantities(ordersBefore))
        => heldByAll(creditOrderStorage) = heldByAll(ordersBefore)

\* a transfer that consumed two source orders whole, one of them of negative
\* quantity, and a third in part
C1_Witness ==
    /\ transferReturned(Transferred)
    /\ \E i \in logged("unfulfilled") :
           parseFloat(ordersBefore[last.log[i][1]].quantity).v < 0
    /\ Cardinality(logged("unfulfilled")) >= 2
    /\ Cardinality(logged("reduced")) = 1

\* C2 as claimed: after every successful transfer the source client holds
\* exactly q less and the destination client exactly q more, for every pair
\* of client ids the operation accepts.
C2_AsClaimed ==
    transferReturned(Transferred) =>
        /\ held(creditOrderStorage, fromClient) = held(ordersBefore, fromClient) - requested.v
        /\ held(creditOrderStorage, toClient) = held(ordersBefore, toClient) + requested.v

\* C2 amended: over integer quantities, a successful transfer between two
\* different clients lowers what the source holds by exactly q and raises
\* what the destination holds by exactly q; a transfer from a client to
\* itself, which the operation accepts, leaves what that client holds as it
\* was.
C2_Amended ==
    (transferReturned(Transferred) /\ integerQuantities(ordersBefore)) =>
        IF fromClient # toClient
        THEN /\ held(creditOrderStorage, fromClient)
                    = held(ordersBefore, fromClient) - requested.v
             /\ held(creditOrderStorage, toClient)
                    = held(ordersBefore, toClient) + requested.v
        ELSE held(creditOrderStorage, fromClient) = held(ordersBefore, fromClient)

\* a transfer between two different clients that both held credits
C2_Witness ==
    /\ transferReturned(Transferred)
    /\ fromClient # toClient
    /\ held(ordersBefore, toClient) > 0
    /\ held(creditOrderStorage, fromClient) > 0

\* C3: a transfer that returns one of the three failure messages leaves every
\* store as it found it.
C3_FailureChangesNothing ==
    (\/ transferReturned(InvalidClientIDs)
     \/ transferReturned(InvalidQuantity)
     \/ transferReturned(InsufficientCredits))
        => stores = last.before

\* a transfer refused for insufficient credits of a source that held some
C3_Witness ==
    /\ transferReturned(InsufficientCredits)
    /\ held(ordersBefore, fromClient) > 0
    /\ fromClientOrders(ordersBefore, fromClient) # <<>>

\* C4: the checks are made in a fixed order and the first that fails decides
\* the message: unknown client ids, whatever the quantity; then a quantity
\* that is not a number above zero, whatever the source holds; then a source
\* that holds less than the quantity; the transfer succeeds when the source
\* holds at least the quantity.
C4_FirstFailureWins ==
    last.op = "transferCredits" =>
        LET clients == DOMAIN last.before[2]
            holds == held(ordersBefore, fromClient)
        IN  IF fromClient \notin clients \/ toClient \notin clients
            THEN last.msg = InvalidClientIDs
            ELSE IF isNaN(requested) \/ requested.v <= 0
            THEN last.msg = InvalidQuantity
            ELSE /\ holds < requested.v => last.msg = InsufficientCredits
                 /\ holds >= requested.v => last.msg = Transferred

\* a quantity of zero asked of a source that holds nothing: the quantity is
\* reported, not the source's holdings
C4_Witness ==
    /\ transferReturned(InvalidQuantity)
    /\ ~isNaN(requested)
    /\ held(ordersBefore, fromClient) = 0

\* C10: a successful transfer walks the source client's fulfilled orders in
\* storage order with remaining = q; an order no larger than what remains
\* becomes unfulfilled with its quantity kept and lowers what remains; the
\* first order larger than what remains stays fulfilled and is lowered by
\* what remains.
sourceOrders == keys(fulfilledOf(ordersBefore, fromClient))
quantityBefore(i) == parseFloat(ordersBefore[sourceOrders[i]].quantity).v
\* what remains when the walk reaches the i-th source order, every earlier
\* one having been consumed whole
remainingAt(i) ==
    requested.v - quantitySum({sourceOrders[j] : j \in 1..(i - 1)}, ordersBefore)
\* the source orders that do not fit what remains at their turn
tooLarge == {i \in 1..Len(sourceOrders) : quantityBefore(i) > remainingAt(i)}
firstTooLarge == CHOOSE i \in tooLarge : \A j \in tooLarge : i <= j

C10_Walk ==
    (transferReturned(Transferred) /\ integerQuantities(ordersBefore)) =>
        \A i \in 1..Len(sourceOrders) :
            LET id == sourceOrders[i]
            IN  /\ (\A j \in tooLarge : i < j) =>
                      /\ ~creditOrderStorage[id].is_fulfilled
                      /\ creditOrderStorage[id].quantity = ordersBefore[id].quantity
                /\ (tooLarge # {} /\ i = firstTooLarge) =>
                      /\ creditOrderStorage[id].is_fulfilled
                      /\ parseFloat(creditOrderStorage[id].quantity)
                            = Num(quantityBefore(i) - remainingAt(i))

\* two fulfilled orders of 2 and 2 and q = 3 give an unfulfilled order of 2
\* and a fulfilled order of 1
C10_Witness ==
    /\ transferReturned(Transferred)
    /\ Len(sourceOrders) = 2
    /\ quantityBefore(1) = 2 /\ quantityBefore(2) = 2
    /\ requested.v = 3
    /\ ~creditOrderStorage[sourceOrders[1]].is_fulfilled
    /\ creditOrderStorage[sourceOrders[1]].quantity = <<"2">>
    /\ creditOrderStorage[sourceOrders[2]].is_fulfilled
    /\ creditOrderStorage[sourceOrders[2]].quantity = <<"1">>

\* ---- the allocation pass
passReturned(msg) == last.op = "updateCreditOrderFulfillment" /\ last.msg = msg
producersBefore == last.before[1]
\* the orders the pass listed: those not fulfilled when it began
listedOrders == keys({id \in DOMAIN ordersBefore : ~ordersBefore[id].is_fulfilled})
\* the orders a producer's loop marked fulfilled and wrote to storage
fulfilledBy(producer) ==
    {last.log[i][2] : i \in {j \in 1..Len(last.log) : last.log[j][1] = producer}}

\* C5 as claimed: within one pass no order is marked and written as fulfilled
\* more than once, however many producers there are.
C5_AsClaimed ==
    last.op = "updateCreditOrderFulfillment" =>
        \A i \in 1..Len(last.log), j \in 1..Len(last.log) :
            i # j => last.log[i][2] # last.log[j][2]

\* C6: the pass leaves every order that was fulfilled before it unchanged in
\* every field.
C6_FulfilledUntouched ==
    last.op = "updateCreditOrderFulfillment" =>
        \A id \in DOMAIN ordersBefore :
            ordersBefore[id].is_fulfilled =>
                /\ id \in DOMAIN creditOrderStorage
                /\ creditOrderStorage[id] = ordersBefore[id]

\* a pass at a later time than an earlier fulfilment, which fulfilled
\* another order and left the earlier one with its old time stamp
C6_Witness ==
    /\ passReturned(FulfillmentUpdated)
    /\ last.log # <<>>
    /\ \E id \in DOMAIN ordersBefore :
           /\ ordersBefore[id].is_fulfilled
           /\ ordersBefore[id].updated_at # Some(now)

\* C7 as claimed: after a pass, for every producer, the quantities of the
\* orders its loop marked fulfilled sum to no more than its stored supply
\* (stated here of the passes that ran their loops).
C7_AsClaimed ==
    passReturned(FulfillmentUpdated) =>
        \A p \in DOMAIN producerStorage :
            ~Less(parseFloat(producerStorage[p].renewable_energy_supply),
                  Num(quantitySum(fulfilledBy(p), ordersBefore)))

\* C7 amended: the same, for every producer whose stored supply is not
\* negative.
C7_Amended ==
    last.op = "updateCreditOrderFulfillment" =>
        \A p \in DOMAIN producerStorage :
            LET supply == parseFloat(producerStorage[p].renewable_energy_supply)
            IN  Geq(supply, Num(0)) =>
                    Leq(Num(quantitySum(fulfilledBy(p), ordersBefore)), supply)

\* a producer whose loop used its whole supply and left a listed order
\* unfulfilled
C7_Witness ==
    /\ passReturned(FulfillmentUpdated)
    /\ \E p \in DOMAIN producerStorage :
           /\ fulfilledBy(p) # {}
           /\ Num(quantitySum(fulfilledBy(p), ordersBefore))
                 = parseFloat(producerStorage[p].renewable_energy_supply)
    /\ \E i \in 1..Len(listedOrders) :
           ~creditOrderStorage[listedOrders[i]].is_fulfilled

\* C8: with a single producer of supply S the pass fulfils a listed order
\* exactly when its quantity is at most S less the quantities of the earlier
\* listed orders the pass fulfilled; an order that does not fit is passed
\* over and the later ones are still tried.
theProducer == CHOOSE p \in DOMAIN producersBefore : TRUE
fulfilledEarlier(i) ==
    {listedOrders[j] : j \in {k \in 1..(i - 1) :
                                 creditOrderStorage[listedOrders[k]].is_fulfilled}}

C8_GreedyInOrder ==
    (passReturned(FulfillmentUpdated) /\ Cardinality(DOMAIN producersBefore) = 1) =>
        \A i \in 1..Len(listedOrders) :
            creditOrderStorage[listedOrders[i]].is_fulfilled
                <=> Leq(parseFloat(ordersBefore[listedOrders[i]].quantity),
                        Minus(parseFloat(producersBefore[theProducer].renewable_energy_supply),
                              Num(quantitySum(fulfilledEarlier(i), ordersBefore))))

\* supply 3 and orders of 2, 2 and 1: the first is fulfilled, the second is
\* not, the third is
C8_Witness ==
    /\ passReturned(FulfillmentUpdated)
    /\ Cardinality(DOMAIN producersBefore) = 1
    /\ producersBefore[theProducer].renewable_energy_supply = <<"3">>
    /\ Len(listedOrders) = 3
    /\ ordersBefore[listedOrders[1]].quantity = <<"2">>
    /\ ordersBefore[listedOrders[2]].quantity = <<"2">>
    /\ ordersBefore[listedOrders[3]].quantity = <<"1">>
    /\ creditOrderStorage[listedOrders[1]].is_fulfilled
    /\ ~creditOrderStorage[listedOrders[2]].is_fulfilled
    /\ creditOrderStorage[listedOrders[3]].is_fulfilled

\* C9: the pass changes no producer record.
C9_ProducersUnchanged ==
    last.op = "updateCreditOrderFulfillment" => producerStorage = producersBefore

\* a pass in which a producer's loop fulfilled two orders
C9_Witness ==
    /\ passReturned(FulfillmentUpdated)
    /\ \E p \in DOMAIN producerStorage : Cardinality(fulfilledBy(p)) >= 2

\* ---- the order a transfer creates
newOrders == DOMAIN creditOrderStorage \ DOMAIN ordersBefore

\* C11: a successful transfer removes no credit order and adds exactly one,
\* under an identifier no stored order had: it belongs to the destination
\* client, carries the requested quantity and a bid price of 0, and is
\* fulfilled; the number of stored orders grows by exactly 1.
C11_OneNewOrder ==
    transferReturned(Transferred) =>
        /\ DOMAIN ordersBefore \subseteq DOMAIN creditOrderStorage
        /\ Cardinality(newOrders) = 1
        /\ Cardinality(DOMAIN creditOrderStorage)
              = Cardinality(DOMAIN ordersBefore) + 1
        /\ \A id \in newOrders :
              /\ creditOrderStorage[id].client_id = toClient
              /\ creditOrderStorage[id].quantity = last.args[3]
              /\ parseFloat(creditOrderStorage[id].quantity) = requested
              /\ parseFloat(creditOrderStorage[id].bid_price) = Num(0)
              /\ creditOrderStorage[id].is_fulfilled

\* a transfer to another client that found three orders stored and consumed
\* one of them whole
C11_Witness ==
    /\ transferReturned(Transferred)
    /\ fromClient # toClient
    /\ Cardinality(DOMAIN ordersBefore) = 3
    /\ logged("unfulfilled") # {}
    /\ \E id \in newOrders : creditOrderStorage[id].quantity = <<"3">>

\* ---- fulfilment over several calls
\* placeCreditOrder stores an order with no update time; only a pass that
\* fulfils an order and a transfer that consumes or reduces a fulfilled order
\* write one.  An unfulfilled order that carries an update time has therefore
\* been fulfilled by an earlier pass and set back by a transfer.
fulfilledOnceBefore(id) ==
    ~ordersBefore[id].is_fulfilled /\ ordersBefore[id].updated_at # None

\* C12 as claimed: over placeCreditOrder, updateCreditOrderFulfillment and
\* transferCredits calls no order changes from unfulfilled to fulfilled more
\* than once: a pass fulfils no order that an earlier pass fulfilled and a
\* transfer set back to unfulfilled.
C12_AsClaimed ==
    last.op = "updateCreditOrderFulfillment" =>
        \A i \in 1..Len(last.log) : ~fulfilledOnceBefore(last.log[i][2])

\* ---- a pass with nothing to do
\* C13: a pass called with no producer stored, or with no unfulfilled order
\* stored, changes no record of any store and returns the no-work message.
C13_NoWork ==
    (/\ last.op = "updateCreditOrderFulfillment"
     /\ \/ DOMAIN producersBefore = {}
        \/ \A id \in DOMAIN ordersBefore : ordersBefore[id].is_fulfilled)
        => /\ stores = last.before
           /\ last.msg = NoWork

\* a pass that found no producer stored and both fulfilled and unfulfilled
\* orders
C13_Witness ==
    /\ passReturned(NoWork)
    /\ DOMAIN producersBefore = {}
    /\ \E id \in DOMAIN ordersBefore : ordersBefore[id].is_fulfilled
    /\ \E id \in DOMAIN ordersBefore : ~ordersBefore[id].is_fulfilled

\* ---- orders of zero or negative quantity
\* what a listed order takes from the remaining supply according to the
\* claim: its quantity, or nothing when the quantity is zero or negative
RECURSIVE takenSum(_)
takenSum(ids) ==
    IF ids = {} THEN 0
    ELSE LET id == CHOOSE x \in ids : TRUE
             q == parseFloat(ordersBefore[id].quantity).v
         IN  (IF q > 0 THEN q ELSE 0) + takenSum(ids \ {id})

\* C14 as claimed: in a pass with a single producer of non-negative supply S,
\* every listed order of zero or negative quantity is fulfilled, and it takes
\* nothing from the remaining supply: a listed order is fulfilled exactly
\* when its quantity is at most S less the positive quantities of the
\* earlier listed orders the pass fulfilled.
C14_AsClaimed ==
    (/\ passReturned(FulfillmentUpdated)
     /\ Cardinality(DOMAIN producersBefore) = 1
     /\ Geq(parseFloat(producersBefore[theProducer].renewable_energy_supply), Num(0))
     /\ integerQuantities(creditOrderStorage)) =>
        \A i \in 1..Len(listedOrders) :
            creditOrderStorage[listedOrders[i]].is_fulfilled
                <=> Leq(parseFloat(ordersBefore[listedOrders[i]].quantity),
                        Minus(parseFloat(producersBefore[theProducer].renewable_energy_supply),
                              Num(takenSum(fulfilledEarlier(i)))))

\* ---- a supply that is not a number
malformedProducers ==
    {p \in DOMAIN producersBefore :
        isNaN(parseFloat(producersBefore[p].renewable_energy_supply))}

\* C15 as claimed: a pass that has work to do and meets a producer whose
\* supply is not numeric does not return the success status.
C15_AsClaimed ==
    (/\ last.op = "updateCreditOrderFulfillment"
     /\ listedOrders # <<>>
     /\ malformedProducers # {})
        => last.msg # FulfillmentUpdated

\* ---- queries
\* C16: the four aggregate queries change no store, and a query answers as
\* every earlier call of the same query with the same argument did since the
\* last update call.
C16_QueriesRepeat ==
    last.op \in Queries =>
        /\ stores = last.before
        /\ \A earlier \in last.seen :
              (earlier[1] = last.op /\ earlier[2] = last.args)
                  => earlier[3] = last.msg

\* a second call of getTotalRevenue over fulfilled orders, with another
\* query answered between the two calls
C16_Witness ==
    /\ last.op = "getTotalRevenue"
    /\ last.msg = Ok(Num(4))
    /\ \E earlier \in last.seen : earlier[1] = "getTotalRevenue"
    /\ \E earlier \in last.seen : earlier[1] = "getUnfulfilledCreditOrders"
    /\ \E earlier \in last.seen : earlier[1] = "getClientContracts"
    /\ \E earlier \in last.seen : earlier[1] = "calculateTotalRenewableEnergy"

\* ---- passes keep no memory
\* C17: when the first listed order of a pass has a quantity no larger than
\* the stored supply of some producer, the pass fulfils it, whatever earlier
\* passes fulfilled against that producer.
C17_Memoryless ==
    (/\ last.op = "updateCreditOrderFulfillment"
     /\ listedOrders # <<>>
     /\ \E p \in DOMAIN producersBefore :
           Leq(parseFloat(ordersBefore[listedOrders[1]].quantity),
               parseFloat(producersBefore[p].renewable_energy_supply)))
        => /\ last.msg = FulfillmentUpdated
           /\ creditOrderStorage[listedOrders[1]].is_fulfilled

\* a single producer of supply 3 whose earlier passes fulfilled a quantity
\* of 3 or more, and a pass that fulfils a further order of quantity 2
C17_Witness ==
    /\ passReturned(FulfillmentUpdated)
    /\ Cardinality(DOMAIN producersBefore) = 1
    /\ producersBefore[theProducer].renewable_energy_supply = <<"3">>
    /\ heldByAll(ordersBefore) >= 3
    /\ Len(listedOrders) = 1
    /\ ordersBefore[listedOrders[1]].quantity = <<"2">>
    /\ creditOrderStorage[listedOrders[1]].is_fulfilled

\* ---- several producers in one pass
\* the orders whose first write of the pass was made by this producer's loop
chargedTo(producer) ==
    {last.log[i][2] : i \in {j \in 1..Len(last.log) :
        /\ last.log[j][1] = producer
        /\ \A k \in 1..(j - 1) : last.log[k][2] # last.log[j][2]}}

\* C18 as claimed: an order is charged to the one producer that fulfilled it
\* and lowers no later producer's remaining supply.  Over listed orders of
\* positive quantity and numeric supplies, each producer then ends the pass
\* with at least its supply less the orders it was the first to fulfil, and
\* every order the pass leaves unfulfilled is larger than that.
C18_AsClaimed ==
    (/\ passReturned(FulfillmentUpdated)
     /\ \A i \in 1..Len(listedOrders) :
           Less(Num(0), parseFloat(ordersBefore[listedOrders[i]].quantity))
     /\ \A p \in DOMAIN producersBefore :
           ~isNaN(parseFloat(producersBefore[p].renewable_energy_supply))) =>
        \A p \in DOMAIN producersBefore, i \in 1..Len(listedOrders) :
            ~creditOrderStorage[listedOrders[i]].is_fulfilled =>
                Less(Minus(parseFloat(producersBefore[p].renewable_energy_supply),
                           Num(quantitySum(chargedTo(p), ordersBefore))),
                     parseFloat(ordersBefore[listedOrders[i]].quantity))

\* ---- after the whole quantity is deducted
\* the walk has deducted the whole requested quantity before it reaches the
\* i-th source order: an earlier order was reduced, or the earlier orders
\* consumed whole add up to the requested quantity
deductedBefore(i) ==
    \E j \in 1..(i - 1) : j \in tooLarge \/ remainingAt(j + 1) = 0

\* C19 as claimed: a successful transfer leaves every source order that
\* comes after the point where the whole quantity is deducted with its
\* fulfilled flag and its quantity, orders of quantity zero included.
C19_AsClaimed ==
    (transferReturned(Transferred) /\ integerQuantities(ordersBefore)) =>
        \A i \in 1..Len(sourceOrders) :
            deductedBefore(i) =>
                /\ creditOrderStorage[sourceOrders[i]].is_fulfilled
                /\ parseFloat(creditOrderStorage[sourceOrders[i]].quantity)
                      = Num(quantityBefore(i))

\* ---- what a transfer leaves alone
\* C20: a successful transfer changes no producer, client or contract, and
\* no credit order other than those the source client held fulfilled before
\* the call; every order of another client and every unfulfilled order of
\* the source client is stored unchanged, and the only order added is the
\* one the transfer creates.
C20_Frame ==
    transferReturned(Transferred) =>
        /\ producerStorage = last.before[1]
        /\ clientStorage = last.before[2]
        /\ contractStorage = last.before[3]
        /\ \A id \in DOMAIN ordersBefore :
              ~(ordersBefore[id].is_fulfilled /\ ordersBefore[id].client_id = fromClient)
                  => /\ id \in DOMAIN creditOrderStorage
                     /\ creditOrderStorage[id] = ordersBefore[id]
        /\ Cardinality(newOrders) = 1

\* a transfer between two clients that consumed a source order and found an
\* unfulfilled order of the source stored before the orders it walked
C20_Witness ==
    /\ transferReturned(Transferred)
    /\ fromClient # toClient
    /\ logged("unfulfilled") # {}
    /\ \E id \in DOMAIN ordersBefore :
          /\ ordersBefore[id].client_id = fromClient
          /\ ~ordersBefore[id].is_fulfilled
          /\ id < sourceOrders[1]

\* ---- fulfillCreditOrder
\* C21 as claimed: fulfillCreditOrder changes credit-order storage only for a
\* stored unfulfilled order, which it marks fulfilled; for an id that is not
\* stored no record is added, and an order that is already fulfilled is left
\* as it was with the already-fulfilled message.
C21_AsClaimed ==
    last.op = "fulfillCreditOrder" =>
        LET id == last.args[1]
        IN  IF id \notin DOMAIN ordersBefore
            THEN creditOrderStorage = ordersBefore
            ELSE IF ordersBefore[id].is_fulfilled
            THEN creditOrderStorage = ordersBefore /\ last.msg = AlreadyFulfilled
            ELSE creditOrderStorage =
                    [ordersBefore EXCEPT ![id] =
                        [ordersBefore[id] EXCEPT !.is_fulfilled = TRUE,
                                                 !.updated_at = Some(now)]]

\* ---- deleteClient
\* the clients that were stored and have been deleted: uuidv4 hands out no
\* identifier twice, so a deleted client's id is never stored again
deletedClients == issued.clients \ DOMAIN clientStorage

\* C22: deleteClient of a stored client removes that client record and
\* nothing else, the client's fulfilled orders included; every later transfer
\* that names a deleted client as source or destination returns "Invalid
\* client IDs" and changes no store.
C22_NoCascade ==
    /\ (last.op = "deleteClient" /\ last.args[1] \in DOMAIN last.before[2]) =>
          /\ clientStorage = remove(last.before[2], last.args[1])
          /\ producerStorage = last.before[1]
          /\ contractStorage = last.before[3]
          /\ creditOrderStorage = ordersBefore
          /\ last.msg = ClientRemoved
    /\ (/\ last.op = "transferCredits"
        /\ (fromClient \in deletedClients \/ toClient \in deletedClients)) =>
          /\ last.msg = InvalidClientIDs
          /\ stores = last.before

\* a transfer refused because its source was deleted, the source's fulfilled
\* orders still stored and enough for the quantity, the destination stored
C22_Witness ==
    /\ transferReturned(InvalidClientIDs)
    /\ fromClient \in deletedClients
    /\ toClient \in DOMAIN clientStorage
    /\ held(creditOrderStorage, fromClient) >= requested.v

====
